---- MODULE Spec2Model ----
(***************************************************************************)
(* Model of the quote service's data layer (src/app/db.py): the tiered     *)
(* resolver _load_quotes_securely, the seed-file loader                    *)
(* _load_from_seed_files and the bootstrap ensure_schema_and_seed, and of  *)
(* the HTTP routes and initialize_database of src/app/main.py; of the       *)
(* cleanup runbook src/scripts/azure-automation-cleanup.py and of the cost  *)
(* retrieval and budget check of src/scripts/azure-cost-monitor.py.        *)
(***************************************************************************)
EXTENDS Integers, Sequences, FiniteSets, TLC

\* ------------------------------------------------------------------------
\* Bounds
\* ------------------------------------------------------------------------
MaxInlineLen == 2     \* longest JSON array carried by QUOTES_DATA_BASE64
MaxSecretLen == 1     \* longest JSON array carried by the Key Vault secret
MaxSeedLen == 1       \* longest seed file array when the resolver is explored
MaxFileLen == 3       \* longest seed file array when the loader is explored
MaxBootLen == 2       \* longest JSON array fed to the bootstrap
MaxRuns == 2          \* bootstrap runs started in one behaviour
MaxRequests == 2      \* HTTP requests served in one behaviour
MaxOvershoot == 1     \* longest delay of a poll beyond its sleep, in units of 10 s
MaxGroups == 2        \* resource groups the cost monitor discovers
MaxBudget == 20       \* largest budget limit, in dollars
MaxCost == 25         \* largest current cost, in dollars

\* ------------------------------------------------------------------------
\* Values
\* ------------------------------------------------------------------------
Unset == "<unset>"    \* an environment variable that is not set
Absent == "<absent>"  \* a key missing from a JSON object (dict.get gives None)
Null == "<null>"      \* a key of a JSON object whose value is null

\* JSON objects found in the arrays: quote objects and marker objects
Q1 == [author |-> "A1", text |-> "T1", comment |-> Absent]
Q2 == [author |-> Absent, text |-> "T2", comment |-> Absent]
Q3 == [author |-> "A3", text |-> "T3", comment |-> ""]
E1 == [author |-> "A1", text |-> "", comment |-> Absent]
N1 == [author |-> "A1", text |-> Absent, comment |-> Absent]
M1 == [author |-> Absent, text |-> Absent, comment |-> "note"]
M2 == [author |-> "A4", text |-> "T4", comment |-> "note"]
Q4 == [author |-> "", text |-> "T5", comment |-> Absent]
Q5 == [author |-> Null, text |-> "T6", comment |-> Absent]

InlineItems == {Q1, Q2, E1, N1}
SecretItems == {Q2, E1}
SeedItems == {Q1, Q2, Q3, M1, M2}
SmallSeedItems == {Q1, M1}

\* all sequences over S of length at most n
RECURSIVE SeqsUpTo(_, _)
SeqsUpTo(S, n) ==
  IF n = 0 THEN {<<>>}
  ELSE LET shorter == SeqsUpTo(S, n - 1)
       IN shorter \cup {Append(s, x) : s \in {t \in shorter : Len(t) = n - 1}, x \in S}

\* Python values a JSON document parses to
JArray(items) == [kind |-> "array", items |-> items]
JNull == [kind |-> "null", items |-> <<>>]
JObject == [kind |-> "object", items |-> <<>>]
None == JNull

\* An encoded payload (environment variable value or secret value)
Payload(tag, val) == [tag |-> tag, val |-> val]
BadPayloads == {Payload(t, JNull) : t \in {"b64err", "utf8err", "jsonerr"}}
Encoded(vals) == {Payload("json", v) : v \in vals}

\* A seed file candidate path
FileAbsent == [state |-> "absent", val |-> JNull]
FileBad == [state |-> "bad", val |-> JNull]
FileOk(v) == [state |-> "ok", val |-> v]

SeedPaths == 1..4

VARIABLES
  DEMO_MODE,            \* os.environ['DEMO_MODE']
  ENVIRONMENT,          \* os.environ['ENVIRONMENT']
  KEY_VAULT_URL,        \* os.environ['KEY_VAULT_URL']
  QUOTES_DATA_BASE64,   \* os.environ['QUOTES_DATA_BASE64']
  secret,               \* what client.get_secret("quotes-data") gives
  seed_files,           \* the four candidate seed paths
  resolved,             \* the last call of _load_quotes_securely
  seed_loaded,          \* the last direct call of _load_from_seed_files
  db_env,               \* the environment variables of the connection factory
  pyodbc_available,     \* whether import pyodbc succeeds
  table_exists,         \* dbo.quotes exists (committed)
  rows,                 \* the committed rows of dbo.quotes, in insertion order
  pc,                   \* where each instance is in ensure_schema_and_seed
  conn,                 \* each instance's connection: "none", "open", "closed"
  tx,                   \* each instance's uncommitted work
  count,                \* the row count each instance read
  todo,                 \* the rows each instance has still to insert
  raising,              \* an exception is propagating through the finally block
  inserted,             \* INSERT statements each instance executed in its run
  before,               \* committed row count when the run started
  runs,                 \* bootstrap runs started
  history,              \* the finished runs, in order of completion
  trace,                \* what each instance's run has issued so far
  request,              \* the inputs of the last HTTP request
  response,             \* the response to the last HTTP request
  open_conns,           \* connections that finished requests left open
  requests,             \* HTTP requests served
  webhook_url,          \* --webhook-url of the cleanup script
  cleanup,              \* where the cleanup script is and what it has computed
  clock,                \* time.time(), in seconds
  operation,            \* the state of the delete operation in Azure
  notifications,        \* the webhook POSTs attempted, in order
  cost_in,              \* what the cost monitor finds in Azure
  cost_data,            \* the last result of _get_cost_data_via_cli and its report
  budget                \* the last call of check_budget_alerts

envvars == <<DEMO_MODE, ENVIRONMENT, KEY_VAULT_URL, QUOTES_DATA_BASE64, secret, seed_files>>
dbvars == <<db_env, pyodbc_available, table_exists, rows>>
runvars == <<pc, conn, tx, count, todo, raising, inserted, before, runs, history, trace>>
webvars == <<request, response, open_conns, requests>>
scriptvars == <<webhook_url, cleanup, clock, operation, notifications>>
costvars == <<cost_in, cost_data, budget>>
vars == <<DEMO_MODE, ENVIRONMENT, KEY_VAULT_URL, QUOTES_DATA_BASE64, secret, seed_files,
          resolved, seed_loaded, db_env, pyodbc_available, table_exists, rows,
          pc, conn, tx, count, todo, raising, inserted, before, runs, history, trace,
          request, response, open_conns, requests,
          webhook_url, cleanup, clock, operation, notifications,
          cost_in, cost_data, budget>>

\* ------------------------------------------------------------------------
\* Helpers of the resolver
\* ------------------------------------------------------------------------
\* what one call of the resolver did: the value returned, the return
\* statement taken, whether the secret store was contacted and whether
\* _load_from_seed_files was invoked
Outcome(result, source, kv, seed) ==
  [called |-> TRUE, result |-> result, source |-> source, kv |-> kv, seed |-> seed]

\* str.lower() on the strings the environment holds
lower(s) ==
  CASE s = "PROD" -> "prod"
    [] s = "TRUE" -> "true"
    [] OTHER -> s

\* os.environ.get(name, default)
environ_get(v, default) == IF v = Unset THEN default ELSE v

\* truthiness of an optional string
truthy(s) == s # Unset /\ s # Absent /\ s # Null /\ s # ""

\* base64.b64decode(x).decode('utf-8'): the JSON text, or an exception
b64decode_utf8(p) ==
  IF p.tag \in {"b64err", "utf8err", "throws", "unset", "empty"}
  THEN [ok |-> FALSE, wellformed |-> FALSE, val |-> JNull]
  ELSE [ok |-> TRUE, wellformed |-> p.tag = "json", val |-> p.val]

\* json.loads(text): the parsed value, or an exception
json_loads(t) ==
  IF t.ok /\ t.wellformed THEN [ok |-> TRUE, val |-> t.val]
  ELSE [ok |-> FALSE, val |-> JNull]

\* len(x) raises TypeError on None
has_len(v) == v.kind \in {"array", "object"}

\* decode, parse and log the length; any exception makes the step fail
decode_step(p) ==
  LET parsed == json_loads(b64decode_utf8(p))
  IN IF parsed.ok /\ has_len(parsed.val)
     THEN [ok |-> TRUE, val |-> parsed.val]
     ELSE [ok |-> FALSE, val |-> JNull]

\* variant: the marker test looks at the presence of the key only
RECURSIVE comment_filter_by_key(_)
comment_filter_by_key(data) ==
  IF data = <<>> THEN <<>>
  ELSE IF Head(data).comment = Absent
       THEN <<Head(data)>> \o comment_filter_by_key(Tail(data))
       ELSE comment_filter_by_key(Tail(data))

\* the list comprehension of _load_from_seed_files
RECURSIVE comment_filter(_)
comment_filter(data) ==
  IF data = <<>> THEN <<>>
  ELSE IF ~truthy(Head(data).comment)
       THEN <<Head(data)>> \o comment_filter(Tail(data))
       ELSE comment_filter(Tail(data))

\* one candidate path: exists, opens, parses and filters
seed_candidate(f) ==
  IF f.state = "ok" /\ f.val.kind = "array"
  THEN [ok |-> TRUE, val |-> JArray(comment_filter(f.val.items))]
  ELSE [ok |-> FALSE, val |-> None]

\* variant: the first candidate that exists and fails ends the loop
RECURSIVE seed_loop_stops_at_error(_, _)
seed_loop_stops_at_error(files, i) ==
  IF i > 4 THEN None
  ELSE IF seed_candidate(files[i]).ok THEN seed_candidate(files[i]).val
       ELSE IF files[i].state # "absent" THEN None
       ELSE seed_loop_stops_at_error(files, i + 1)

\* the loop over possible_paths, from path i on
RECURSIVE seed_loop(_, _)
seed_loop(files, i) ==
  IF i > 4 THEN None
  ELSE IF seed_candidate(files[i]).ok THEN seed_candidate(files[i]).val
       ELSE seed_loop(files, i + 1)

_load_from_seed_files(files) == seed_loop(files, 1)

\* variant: the endpoint is tested against None instead of for truthiness
production_violation_is_none(environment, key_vault_url) ==
  environment = "prod" /\ key_vault_url = Unset

\* CONSTRAINT 1
production_violation(environment, key_vault_url) ==
  environment = "prod" /\ ~truthy(key_vault_url)

\* the tiers of CONSTRAINT 5
dev_fallback(environment) == environment \in {"dev", "development", "demo"}

\* the except branch of CONSTRAINT 4: TRUE when the resolver gives up
vault_failure_is_final(environment) == environment = "prod"

\* CONSTRAINT 5 and 6
fallback_step(environment, files, kv) ==
  IF dev_fallback(environment)
  THEN Outcome(_load_from_seed_files(files), "SeedFile", kv, TRUE)
  ELSE Outcome(None, "Unavailable", kv, FALSE)

\* variant: a failed fetch goes to the seed files whatever the tier
vault_step_always_falls_back(environment, key_vault_url, sec, files) ==
  IF truthy(key_vault_url)
  THEN IF sec.tag # "throws" /\ decode_step(sec).ok
       THEN Outcome(decode_step(sec).val, "SecretStore", TRUE, FALSE)
       ELSE Outcome(_load_from_seed_files(files), "SeedFile", TRUE, TRUE)
  ELSE fallback_step(environment, files, FALSE)

\* CONSTRAINT 4
vault_step(environment, key_vault_url, sec, files) ==
  IF truthy(key_vault_url)
  THEN IF sec.tag # "throws" /\ decode_step(sec).ok
       THEN Outcome(decode_step(sec).val, "SecretStore", TRUE, FALSE)
       ELSE IF vault_failure_is_final(environment)
            THEN Outcome(None, "Unavailable", TRUE, FALSE)
            ELSE fallback_step(environment, files, TRUE)
  ELSE fallback_step(environment, files, FALSE)

\* variant: a payload that fails to decode ends the resolution
inline_step_hard_error(environment, key_vault_url, quotes_env, sec, files) ==
  IF quotes_env.tag \notin {"unset", "empty"}
  THEN IF decode_step(quotes_env).ok
       THEN Outcome(decode_step(quotes_env).val, "InlineEnv", FALSE, FALSE)
       ELSE Outcome(None, "Unavailable", FALSE, FALSE)
  ELSE vault_step(environment, key_vault_url, sec, files)

\* variant: the secret store is tried before the inline payload
inline_step_after_vault(environment, key_vault_url, quotes_env, sec, files) ==
  IF truthy(key_vault_url) /\ sec.tag # "throws" /\ decode_step(sec).ok
  THEN Outcome(decode_step(sec).val, "SecretStore", TRUE, FALSE)
  ELSE IF quotes_env.tag \notin {"unset", "empty"} /\ decode_step(quotes_env).ok
       THEN Outcome(decode_step(quotes_env).val, "InlineEnv", truthy(key_vault_url), FALSE)
       ELSE vault_step(environment, key_vault_url, sec, files)

\* CONSTRAINT 3
inline_step(environment, key_vault_url, quotes_env, sec, files) ==
  IF quotes_env.tag \notin {"unset", "empty"} /\ decode_step(quotes_env).ok
  THEN Outcome(decode_step(quotes_env).val, "InlineEnv", FALSE, FALSE)
  ELSE vault_step(environment, key_vault_url, sec, files)

\* variant: the inline payload is tried before the demo flag
_load_quotes_securely_inline_first(dm, env, kvu, qd, sec, files) ==
  LET demo_mode == lower(environ_get(dm, "")) = "true"
      environment == lower(environ_get(env, "dev"))
  IN IF production_violation(environment, kvu)
     THEN Outcome(None, "Unavailable", FALSE, FALSE)
     ELSE IF qd.tag \notin {"unset", "empty"} /\ decode_step(qd).ok
          THEN Outcome(decode_step(qd).val, "InlineEnv", FALSE, FALSE)
          ELSE IF demo_mode
               THEN Outcome(_load_from_seed_files(files), "SeedFile", FALSE, TRUE)
               ELSE vault_step(environment, kvu, sec, files)

_load_quotes_securely(dm, env, kvu, qd, sec, files) ==
  LET demo_mode == lower(environ_get(dm, "")) = "true"
      environment == lower(environ_get(env, "dev"))
  IN IF production_violation(environment, kvu)
     THEN Outcome(None, "Unavailable", FALSE, FALSE)
     ELSE IF demo_mode
          THEN Outcome(_load_from_seed_files(files), "SeedFile", FALSE, TRUE)
          ELSE inline_step(environment, kvu, qd, sec, files)

\* ------------------------------------------------------------------------
\* Helpers of the connection factory and of the bootstrap
\* ------------------------------------------------------------------------
Instances == 1..2

DbEnv(cs1, cs2, server, database, user, password, auth) ==
  [DATABASE_CONNECTION_STRING |-> cs1, SQL_CONN_STR |-> cs2, SQL_SERVER |-> server,
   SQL_DATABASE |-> database, SQL_USER |-> user, SQL_PASSWORD |-> password,
   AZURE_SQL_AUTH |-> auth]

\* the connection string, or DBNotConfigured
_connection_string_from_env(e) ==
  IF truthy(e.DATABASE_CONNECTION_STRING)
  THEN [ok |-> TRUE, cs |-> e.DATABASE_CONNECTION_STRING]
  ELSE IF truthy(e.SQL_CONN_STR)
  THEN [ok |-> TRUE, cs |-> e.SQL_CONN_STR]
  ELSE IF truthy(e.SQL_SERVER) /\ truthy(e.SQL_DATABASE) /\ truthy(e.SQL_USER)
          /\ truthy(e.SQL_PASSWORD)
  THEN [ok |-> TRUE, cs |-> "Driver=ODBC;Server=tcp"]
  ELSE [ok |-> FALSE, cs |-> ""]

\* variant: a missing driver is not noticed before connecting
db_not_configured_ignores_driver(available, e) ==
  ~_connection_string_from_env(e).ok

\* get_db_connection up to the call of pyodbc.connect: TRUE when DBNotConfigured
db_not_configured(available, e) ==
  ~available \/ ~_connection_string_from_env(e).ok

\* "not quotes_data"
falsy(v) == v.kind = "null" \/ (v.kind = "array" /\ v.items = <<>>)

\* variant: the comparison is inverted
table_has_rows_inverted(c) == c # 0 /\ c < 0

\* variant: the comparison is off by one
table_has_rows_above_one(c) == c # 0 /\ c > 1

\* "count and int(count) > 0"
table_has_rows(c) == c # 0 /\ c > 0

\* variant: every row gets the sentinel author
row_of_always_unknown(q) == [author |-> "Unknown", text |-> q.text]

\* q.get("author", "Unknown"), q["text"]
row_of(q) == [author |-> IF q.author = Absent THEN "Unknown" ELSE q.author,
              text |-> q.text]

\* author and text are NOT NULL columns: the INSERT of a None is rejected
violates_not_null(row) == row.author = Null \/ row.text = Null

\* variant: the comprehension tests the presence of the text key only
RECURSIVE seed_rows_by_key(_)
seed_rows_by_key(quotes) ==
  IF quotes = <<>> THEN <<>>
  ELSE IF Head(quotes).text # Absent
       THEN <<row_of(Head(quotes))>> \o seed_rows_by_key(Tail(quotes))
       ELSE seed_rows_by_key(Tail(quotes))

\* the rows comprehension of _seed_if_empty
RECURSIVE seed_rows(_)
seed_rows(quotes) ==
  IF quotes = <<>> THEN <<>>
  ELSE IF truthy(Head(quotes).text)
       THEN <<row_of(Head(quotes))>> \o seed_rows(Tail(quotes))
       ELSE seed_rows(Tail(quotes))

\* variant: the "not quotes_data" guard is missing
seed_plan_no_guard(v) ==
  IF v.kind = "array" THEN [raises |-> FALSE, rows |-> seed_rows(v.items)]
  ELSE [raises |-> TRUE, rows |-> <<>>]

\* what _seed_if_empty does with the resolver's value: the rows to insert,
\* or an exception when the value is not a list of objects
seed_plan(v) ==
  IF falsy(v) THEN [raises |-> FALSE, rows |-> <<>>]
  ELSE IF v.kind = "array" THEN [raises |-> FALSE, rows |-> seed_rows(v.items)]
  ELSE [raises |-> TRUE, rows |-> <<>>]

NoTx == [created |-> FALSE, rows |-> <<>>]

\* what a run has issued: the resolver call, cursor.execute calls, conn.commit calls
NoTrace == [resolver |-> FALSE, sql |-> 0, commits |-> 0]

\* variant: the exception of ensure_schema_and_seed is let through
initialize_database_reraises(how) == IF how = "returned" THEN "True" ELSE "raises"

\* initialize_database around ensure_schema_and_seed: its return value
initialize_database(how) == IF how = "returned" THEN "True" ELSE "False"

\* variant: a unique constraint keeps rows already stored out of the table
RECURSIVE commit_rows_unique(_, _)
commit_rows_unique(stored, pending) ==
  IF pending = <<>> THEN stored
  ELSE IF \E n \in 1..Len(stored) : stored[n] = Head(pending)
       THEN commit_rows_unique(stored, Tail(pending))
       ELSE commit_rows_unique(Append(stored, Head(pending)), Tail(pending))

\* the table after a commit of the pending inserts
commit_rows(stored, pending) == stored \o pending

\* ------------------------------------------------------------------------
\* Helpers of the HTTP routes
\* ------------------------------------------------------------------------
NoQuote == [author |-> Absent, text |-> Absent, comment |-> Absent]
NoBody == [error |-> "", message |-> "", status |-> "", id |-> 0, author |-> "", text |-> "",
           total |-> 0, sample |-> NoQuote, first |-> NoQuote]
NoInputs == [route |-> "", connect |-> "", query |-> "", msg |-> "", pick |-> 0]
NoResponse == [route |-> "", status |-> 0, body |-> NoBody, conn |-> "none"]

Response(route, status, body, c) ==
  [route |-> route, status |-> status, body |-> body, conn |-> c]

\* str(e) of the exceptions a failing connect or query carries
Messages == {"Login failed for user 'sa'", "Server=secret;Pwd=secret"}
NotConfiguredMessage == "Database connection not configured via env."

\* an exception no handler catches: the framework answers 500 with a fixed page
internal_server_error(route, c) ==
  Response(route, 500, [NoBody EXCEPT !.message = "Internal Server Error"], c)

\* jsonify(id=row[0], author=row[1], text=row[2]) of the row NEWID() put first
quote_body(stored, pick) ==
  [NoBody EXCEPT !.id = pick, !.author = stored[pick].author, !.text = stored[pick].text]

\* variant: a failed connection is answered like any other error
random_quote_500(in, stored) ==
  IF in.connect = "raises"
  THEN Response("/", 500, [NoBody EXCEPT !.error = "database_unavailable"], "none")
  ELSE IF in.query = "raises" THEN internal_server_error("/", "closed")
  ELSE IF stored = <<>>
  THEN Response("/", 404, [NoBody EXCEPT !.message = "No quotes available"], "closed")
  ELSE Response("/", 200, quote_body(stored, in.pick), "closed")

\* GET /
random_quote(in, stored) ==
  IF in.connect = "raises"
  THEN Response("/", 503, [NoBody EXCEPT !.error = "database_unavailable"], "none")
  ELSE IF in.query = "raises" THEN internal_server_error("/", "closed")
  ELSE IF stored = <<>>
  THEN Response("/", 404, [NoBody EXCEPT !.message = "No quotes available"], "closed")
  ELSE Response("/", 200, quote_body(stored, in.pick), "closed")

\* GET /quote-with-source
quote_with_source(in, stored) ==
  IF in.connect = "raises"
  THEN Response("/quote-with-source", 503,
                [NoBody EXCEPT !.error = "database_unavailable"], "none")
  ELSE IF in.query = "raises" THEN internal_server_error("/quote-with-source", "closed")
  ELSE IF stored = <<>>
  THEN Response("/quote-with-source", 404,
                [NoBody EXCEPT !.message = "No quotes available"], "closed")
  ELSE Response("/quote-with-source", 200,
                [quote_body(stored, in.pick) EXCEPT !.status = "Azure SQL Database"],
                "closed")

\* GET /db-test: conn.close() is on the success path only
test_database(in) ==
  IF in.connect = "raises"
  THEN Response("/db-test", 500, [NoBody EXCEPT !.status = "error", !.error = in.msg],
                "none")
  ELSE IF in.query = "raises"
  THEN Response("/db-test", 500, [NoBody EXCEPT !.status = "error", !.error = in.msg],
                "open")
  ELSE Response("/db-test", 200, [NoBody EXCEPT !.status = "success"], "closed")

\* GET /db-validate: conn.close() is on the success path only
validate_database(in, stored) ==
  IF in.connect = "raises"
  THEN Response("/db-validate", 500, [NoBody EXCEPT !.status = "error", !.error = in.msg],
                "none")
  ELSE IF in.query = "raises"
  THEN Response("/db-validate", 500, [NoBody EXCEPT !.status = "error", !.error = in.msg],
                "open")
  ELSE Response("/db-validate", 200,
                [NoBody EXCEPT !.status = "success", !.total = Len(stored)], "closed")

\* GET /debug-seed: first_quote of the seed file check and sample_quote of
\* the call of _load_quotes_securely; indexing a value that is no list is
\* caught and reported
debug_seed(files, v) ==
  LET seed == _load_from_seed_files(files)
      first_quote == IF seed.kind = "array" /\ seed.items # <<>> THEN seed.items[1]
                     ELSE NoQuote
      checked == [NoBody EXCEPT !.first = first_quote]
  IN IF falsy(v) THEN Response("/debug-seed", 200, [checked EXCEPT !.status = "loaded"], "none")
     ELSE IF v.kind = "array"
     THEN Response("/debug-seed", 200,
                   [checked EXCEPT !.status = "loaded", !.total = Len(v.items),
                                   !.sample = v.items[1]], "none")
     ELSE Response("/debug-seed", 200, [checked EXCEPT !.error = "KeyError"], "none")

\* the route table
handle(in, stored) ==
  CASE in.route = "/" -> random_quote(in, stored)
    [] in.route = "/quote-with-source" -> quote_with_source(in, stored)
    [] in.route = "/db-test" -> test_database(in)
    [] OTHER -> validate_database(in, stored)

\* ------------------------------------------------------------------------
\* Helpers of the cleanup script
\* ------------------------------------------------------------------------
timeout_seconds == 10 * 60
sleep_seconds == 30

\* the script before main has run
NoCleanup == [pc |-> "main", constructed |-> FALSE, group |-> "", start_time |-> 0,
              last_wait |-> -1, done_at |-> -1, deleted |-> "none", why |-> "",
              status |-> "", success |-> "none", exit_code |-> -1]

\* variant: the loop gives up after twice the timeout
timed_out_late(elapsed) == elapsed > 2 * timeout_seconds

\* "elapsed > timeout_seconds"
timed_out(elapsed) == elapsed > timeout_seconds

\* variant: every run that reaches the deletion reports SUCCESS
cleanup_status_always_success(deleted) == IF deleted \in {"True", "False"} THEN "SUCCESS" ELSE ""

\* the status cleanup_resource_group notifies after delete_resource_group
cleanup_status(deleted) == IF deleted = "True" THEN "SUCCESS" ELSE "WARNING"

\* send_webhook_notification: nothing without a URL, else one POST whose
\* failure is caught
send_webhook_notification(url, sent, status, delivered) ==
  IF ~truthy(url) THEN sent
  ELSE Append(sent, [status |-> status, delivered |-> delivered])

\* variant: the exit code does not depend on the result
exit_code_of_always_zero(constructed, success) == IF constructed \/ success = "True" THEN 0 ELSE 0

\* the sys.exit of main
exit_code_of(constructed, success) == IF constructed /\ success = "True" THEN 0 ELSE 1

\* ------------------------------------------------------------------------
\* Helpers of the cost monitor; amounts of _get_cost_data_via_cli in cents
\* ------------------------------------------------------------------------
\* one discovered resource group: its name, the cost the Cost Management
\* query reports (0 without rows), the cost the consumption listing reports
\* and the types of its resources
Group(name, cm, cons, resources) ==
  [name |-> name, cm |-> cm, cons |-> cons, resources |-> resources]

\* resource_costs.get(resource_type, 1.0)
resource_cost(type) ==
  CASE type = "Microsoft.Web/serverFarms" -> 1300
    [] type = "Microsoft.Web/sites" -> 0
    [] type = "Microsoft.KeyVault/vaults" -> 3
    [] OTHER -> 100

\* env_costs.get(environment, 25.0)
fallback_cost(environment) ==
  CASE environment = "dev" -> 2500
    [] environment = "staging" -> 5000
    [] environment = "prod" -> 10000
    [] OTHER -> 2500

\* "environment in rg" on the names the project uses
name_contains(name, environment) ==
  \/ (environment = "dev" /\ name = "webapp-demo-dev-rg")
  \/ (environment = "prod" /\ name = "webapp-demo-prod-rg")

\* the list comprehension that keeps the groups of one environment
RECURSIVE filter_groups(_, _)
filter_groups(groups, environment) ==
  IF ~truthy(environment) \/ groups = <<>> THEN groups
  ELSE IF name_contains(Head(groups).name, environment)
       THEN <<Head(groups)>> \o filter_groups(Tail(groups), environment)
       ELSE filter_groups(Tail(groups), environment)

\* _try_cost_management_api: the sum of the first column of the rows
RECURSIVE _try_cost_management_api(_)
_try_cost_management_api(groups) ==
  IF groups = <<>> THEN 0 ELSE Head(groups).cm + _try_cost_management_api(Tail(groups))

\* _try_consumption_api: the sum of the positive group costs
RECURSIVE _try_consumption_api(_)
_try_consumption_api(groups) ==
  IF groups = <<>> THEN 0
  ELSE (IF Head(groups).cons > 0 THEN Head(groups).cons ELSE 0)
         + _try_consumption_api(Tail(groups))

RECURSIVE group_estimate(_)
group_estimate(resources) ==
  IF resources = <<>> THEN 0
  ELSE resource_cost(Head(resources)) + group_estimate(Tail(resources))

\* the sum of the estimates of the first n groups
RECURSIVE estimate_upto(_, _)
estimate_upto(groups, n) ==
  IF n = 0 \/ groups = <<>> THEN 0
  ELSE group_estimate(Head(groups).resources) + estimate_upto(Tail(groups), n - 1)

\* _estimate_from_resources: the loop over the groups; an exception at group
\* raises_at (0: none) adds the environment figure to what was summed so far
_estimate_from_resources(groups, environment, raises_at) ==
  IF raises_at = 0 \/ raises_at > Len(groups) THEN estimate_upto(groups, Len(groups))
  ELSE estimate_upto(groups, raises_at - 1) + fallback_cost(environment)

\* format_cost_report: whether the note on estimated costs is appended
format_cost_report(data_source) == data_source = "estimated"

\* _get_cost_data_via_cli: the three methods in turn and the label
_get_cost_data_via_cli(found, environment, raises_at) ==
  LET resource_groups == filter_groups(found, environment)
      first == _try_cost_management_api(resource_groups)
      second == IF first = 0 THEN _try_consumption_api(resource_groups) ELSE first
      total_cost == IF second = 0
                    THEN _estimate_from_resources(resource_groups, environment, raises_at)
                    ELSE second
      data_source == IF total_cost > 0 THEN "actual" ELSE "estimated"
  IN [called |-> TRUE, total_cost |-> total_cost, data_source |-> data_source,
      methods |-> <<"cost_management">>
                    \o (IF first = 0 THEN <<"consumption">> ELSE <<>>)
                    \o (IF second = 0 THEN <<"estimate">> ELSE <<>>),
      note |-> format_cost_report(data_source)]

NoCostData == [called |-> FALSE, total_cost |-> 0, data_source |-> "", methods |-> <<>>,
               note |-> FALSE]

\* a percentage as the fraction num / den
Percentage(num, den) == [num |-> num, den |-> den]
at_least(p, threshold) == p.num >= threshold * p.den

\* variant: the status becomes warning at 90 percent
budget_status_warning_at_90(percentage) ==
  IF at_least(percentage, 100) THEN "critical"
  ELSE IF at_least(percentage, 90) THEN "warning" ELSE "ok"

\* the status expression of check_budget_alerts
budget_status(percentage) ==
  IF at_least(percentage, 100) THEN "critical"
  ELSE IF at_least(percentage, 75) THEN "warning" ELSE "ok"

\* check_budget_alerts; an alert is recorded by its first word
check_budget_alerts(budget_limit, current_cost) ==
  LET percentage == IF budget_limit > 0 THEN Percentage(current_cost * 100, budget_limit)
                    ELSE Percentage(0, 1)
  IN [called |-> TRUE, budget_limit |-> budget_limit, current_cost |-> current_cost,
      percentage |-> percentage,
      alerts |-> IF at_least(percentage, 100) THEN <<"CRITICAL">>
                 ELSE IF at_least(percentage, 90) THEN <<"WARNING">>
                 ELSE IF at_least(percentage, 75) THEN <<"CAUTION">>
                 ELSE <<>>,
      status |-> budget_status(percentage)]

NoBudget == [called |-> FALSE, budget_limit |-> 0, current_cost |-> 0,
             percentage |-> Percentage(0, 1), alerts |-> <<>>, status |-> ""]

NoCostIn == [groups |-> <<>>, environment |-> Unset, raises_at |-> 0]

NotCalled == [called |-> FALSE, result |-> None, source |-> "Unavailable",
              kv |-> FALSE, seed |-> FALSE]

\* ------------------------------------------------------------------------
\* Inputs
\* ------------------------------------------------------------------------
DemoValues == {Unset, "TRUE", "1"}
TierValues == {Unset, "prod", "PROD", "staging", "development", "demo", "qa"}
VaultValues == {Unset, "", "https://kv"}

InlineValues(n) ==
  {Payload("unset", JNull), Payload("empty", JNull)} \cup BadPayloads
    \cup Encoded({JNull, JObject} \cup {JArray(s) : s \in SeqsUpTo(InlineItems, n)})

SecretValues(n) ==
  {Payload("throws", JNull)} \cup BadPayloads
    \cup Encoded({JNull} \cup {JArray(s) : s \in SeqsUpTo(SecretItems, n)})

FileValues(items, n) ==
  {FileAbsent, FileBad, FileOk(JNull)} \cup {FileOk(JArray(s)) : s \in SeqsUpTo(items, n)}

\* no bootstrap has started
NoRun ==
  /\ pc = [i \in Instances |-> "idle"]
  /\ conn = [i \in Instances |-> "none"]
  /\ tx = [i \in Instances |-> NoTx]
  /\ count = [i \in Instances |-> 0]
  /\ todo = [i \in Instances |-> <<>>]
  /\ raising = [i \in Instances |-> FALSE]
  /\ inserted = [i \in Instances |-> 0]
  /\ before = [i \in Instances |-> 0]
  /\ runs = 0
  /\ history = <<>>
  /\ trace = [i \in Instances |-> NoTrace]

\* no HTTP request has been served
NoRequest ==
  /\ request = NoInputs
  /\ response = NoResponse
  /\ open_conns = 0
  /\ requests = 0

\* no script has run
NoScript ==
  /\ webhook_url = Unset
  /\ cleanup = NoCleanup
  /\ clock = 0
  /\ operation = "none"
  /\ notifications = <<>>

\* the cost monitor has not run
NoCost ==
  /\ cost_in = NoCostIn
  /\ cost_data = NoCostData
  /\ budget = NoBudget

\* no database is configured
NoDatabase ==
  /\ db_env = DbEnv(Unset, Unset, Unset, Unset, Unset, Unset, Unset)
  /\ pyodbc_available = TRUE
  /\ table_exists = FALSE
  /\ rows = <<>>

\* ------------------------------------------------------------------------
\* The resolver explored on its own
\* ------------------------------------------------------------------------
InitResolve ==
  /\ DEMO_MODE \in DemoValues
  /\ ENVIRONMENT \in TierValues
  /\ KEY_VAULT_URL \in VaultValues
  /\ QUOTES_DATA_BASE64 \in InlineValues(MaxInlineLen)
  /\ secret \in SecretValues(MaxSecretLen)
  /\ \E f \in FileValues(SmallSeedItems, MaxSeedLen) :
       seed_files = [i \in SeedPaths |-> IF i = 2 THEN f ELSE FileAbsent]
  /\ resolved = NotCalled
  /\ seed_loaded = NotCalled
  /\ NoDatabase
  /\ NoRun
  /\ NoRequest
  /\ NoCost
  /\ NoScript

LoadQuotes ==
  /\ ~resolved.called
  /\ resolved' = _load_quotes_securely(DEMO_MODE, ENVIRONMENT, KEY_VAULT_URL,
                                       QUOTES_DATA_BASE64, secret, seed_files)
  /\ UNCHANGED <<envvars, costvars, scriptvars, webvars, seed_loaded, dbvars, runvars>>

NextResolve == LoadQuotes

SpecResolve == InitResolve /\ [][NextResolve]_vars

\* ------------------------------------------------------------------------
\* The seed-file loader explored on its own
\* ------------------------------------------------------------------------
OtherFiles == {FileAbsent, FileBad, FileOk(JNull), FileOk(JArray(<<Q2>>))}

InitSeed ==
  /\ DEMO_MODE = Unset
  /\ ENVIRONMENT = Unset
  /\ KEY_VAULT_URL = Unset
  /\ QUOTES_DATA_BASE64 = Payload("unset", JNull)
  /\ secret = Payload("throws", JNull)
  /\ \E k \in SeedPaths, arr \in SeqsUpTo(SeedItems, MaxFileLen),
        others \in [SeedPaths -> OtherFiles] :
       seed_files = [i \in SeedPaths |-> IF i = k THEN FileOk(JArray(arr)) ELSE others[i]]
  /\ resolved = NotCalled
  /\ seed_loaded = NotCalled
  /\ NoDatabase
  /\ NoRun
  /\ NoRequest
  /\ NoCost
  /\ NoScript

LoadSeedFiles ==
  /\ ~seed_loaded.called
  /\ seed_loaded' = Outcome(_load_from_seed_files(seed_files), "SeedFile", FALSE, TRUE)
  /\ UNCHANGED <<envvars, costvars, scriptvars, webvars, resolved, dbvars, runvars>>

NextSeed == LoadSeedFiles

SpecSeed == InitSeed /\ [][NextSeed]_vars

\* ------------------------------------------------------------------------
\* The bootstrap: ensure_schema_and_seed, one action per statement
\* ------------------------------------------------------------------------
BootItems == {Q1, Q2, N1}

DbEnvs ==
  { DbEnv(Unset, Unset, Unset, Unset, Unset, Unset, Unset),
    DbEnv(Unset, "cs", Unset, Unset, Unset, Unset, Unset),
    DbEnv(Unset, Unset, "srv", "db", "user", "", "managed_identity"),
    DbEnv("", Unset, "srv", "db", "user", "pw", Unset) }

\* the connection settings the bootstrap is explored with
BootDbEnvs ==
  { DbEnv(Unset, Unset, Unset, Unset, Unset, Unset, Unset),
    DbEnv(Unset, "cs", Unset, Unset, Unset, Unset, Unset),
    DbEnv(Unset, Unset, "srv", "db", "user", "", "managed_identity") }

InitBoot ==
  /\ DEMO_MODE = Unset
  /\ \E e \in {<<Unset, Unset>>, <<"prod", "https://kv">>} :
       ENVIRONMENT = e[1] /\ KEY_VAULT_URL = e[2]
  /\ QUOTES_DATA_BASE64 \in
        {Payload("unset", JNull)}
          \cup Encoded({JObject} \cup {JArray(s) : s \in SeqsUpTo(BootItems, MaxBootLen)})
  /\ secret = Payload("json", JArray(<<Q2>>))
  /\ seed_files \in {[i \in SeedPaths |-> FileAbsent],
                      [i \in SeedPaths |-> IF i = 1 THEN FileOk(JArray(<<M1, Q1>>))
                                            ELSE FileAbsent]}
  /\ resolved = NotCalled
  /\ seed_loaded = NotCalled
  /\ db_env \in BootDbEnvs
  /\ pyodbc_available \in BOOLEAN
  /\ table_exists \in BOOLEAN
  /\ rows \in {<<>>} \cup (IF table_exists THEN {<<row_of(Q1)>>} ELSE {})
  /\ NoRun
  /\ NoRequest
  /\ NoCost
  /\ NoScript

\* the run of instance i is over: the call returned or raised
Finish(i, how) ==
  /\ pc' = [pc EXCEPT ![i] = "idle"]
  /\ raising' = [raising EXCEPT ![i] = FALSE]
  /\ history' = Append(history, [instance |-> i, outcome |-> how, before |-> before[i],
                                  after |-> Len(rows), inserted |-> inserted[i],
                                  conn |-> conn'[i], count |-> count[i],
                                  pending |-> Len(todo[i]), resolver |-> trace[i].resolver,
                                  sql |-> trace[i].sql, commits |-> trace[i].commits,
                                  init |-> initialize_database(how)])

\* variant: no finally block, the exception leaves the function at once
Raise_skips_finally(i) ==
  /\ pc' = [pc EXCEPT ![i] = "idle"]
  /\ raising' = raising

\* variant: the finally block commits before it closes
Raise_commits(i) ==
  /\ pc' = [pc EXCEPT ![i] = "commit"]
  /\ raising' = [raising EXCEPT ![i] = TRUE]

\* a statement raised: control goes to the finally block
Raise(i) ==
  /\ pc' = [pc EXCEPT ![i] = "close"]
  /\ raising' = [raising EXCEPT ![i] = TRUE]

\* ensure_schema_and_seed is called
Start(i) ==
  /\ pc[i] = "idle"
  /\ runs < MaxRuns
  /\ runs' = runs + 1
  /\ pc' = [pc EXCEPT ![i] = "connect"]
  /\ conn' = [conn EXCEPT ![i] = "none"]
  /\ tx' = [tx EXCEPT ![i] = NoTx]
  /\ count' = [count EXCEPT ![i] = 0]
  /\ todo' = [todo EXCEPT ![i] = <<>>]
  /\ inserted' = [inserted EXCEPT ![i] = 0]
  /\ before' = [before EXCEPT ![i] = Len(rows)]
  /\ trace' = [trace EXCEPT ![i] = NoTrace]
  /\ UNCHANGED <<envvars, costvars, scriptvars, webvars, resolved, seed_loaded, dbvars, raising, history>>

\* the runs follow one another, as at process start
StartInSequence(i) ==
  /\ \A j \in Instances : pc[j] = "idle"
  /\ Start(i)

\* conn = get_db_connection()
Connect(i) ==
  /\ pc[i] = "connect"
  /\ IF db_not_configured(pyodbc_available, db_env)
     THEN /\ conn' = conn
          /\ Finish(i, "returned")
     ELSE \E connected \in BOOLEAN :
            IF connected
            THEN /\ conn' = [conn EXCEPT ![i] = "open"]
                 /\ pc' = [pc EXCEPT ![i] = "ensure"]
                 /\ UNCHANGED <<raising, history>>
            ELSE /\ conn' = conn
                 /\ Finish(i, "raised")
  /\ UNCHANGED <<envvars, costvars, scriptvars, webvars, resolved, seed_loaded, dbvars, tx, count, todo, inserted,
                 before, runs, trace>>

\* _ensure_table(cursor)
EnsureTable(i) ==
  /\ pc[i] = "ensure"
  /\ \E fails \in BOOLEAN :
       IF fails
       THEN Raise(i) /\ tx' = tx
       ELSE /\ tx' = [tx EXCEPT ![i].created = ~table_exists]
            /\ pc' = [pc EXCEPT ![i] = "count"]
            /\ raising' = raising
  /\ trace' = [trace EXCEPT ![i].sql = @ + 1]
  /\ UNCHANGED <<envvars, costvars, scriptvars, webvars, resolved, seed_loaded, dbvars, conn, count, todo, inserted,
                 before, runs, history>>

\* SELECT COUNT(1) and the early return of _seed_if_empty
Count(i) ==
  /\ pc[i] = "count"
  /\ \E fails \in BOOLEAN :
       IF fails
       THEN Raise(i) /\ count' = count
       ELSE /\ count' = [count EXCEPT ![i] = Len(rows) + Len(tx[i].rows)]
            /\ pc' = [pc EXCEPT ![i] = IF table_has_rows(count'[i]) THEN "commit"
                                       ELSE "load"]
            /\ raising' = raising
  /\ trace' = [trace EXCEPT ![i].sql = @ + 1]
  /\ UNCHANGED <<envvars, costvars, scriptvars, webvars, resolved, seed_loaded, dbvars, conn, tx, todo, inserted,
                 before, runs, history>>

\* quotes_data = _load_quotes_securely() and the rows comprehension
Load(i) ==
  /\ pc[i] = "load"
  /\ resolved' = _load_quotes_securely(DEMO_MODE, ENVIRONMENT, KEY_VAULT_URL,
                                       QUOTES_DATA_BASE64, secret, seed_files)
  /\ LET plan == seed_plan(resolved'.result)
     IN IF plan.raises
        THEN Raise(i) /\ todo' = todo
        ELSE /\ todo' = [todo EXCEPT ![i] = plan.rows]
             /\ pc' = [pc EXCEPT ![i] = IF plan.rows = <<>> THEN "commit" ELSE "insert"]
             /\ raising' = raising
  /\ trace' = [trace EXCEPT ![i].resolver = TRUE]
  /\ UNCHANGED <<envvars, costvars, scriptvars, webvars, seed_loaded, dbvars, conn, tx, count, inserted, before,
                 runs, history>>

\* one INSERT of the loop
Insert(i) ==
  /\ pc[i] = "insert"
  /\ todo[i] # <<>>
  /\ \E fails \in (IF violates_not_null(Head(todo[i])) THEN {TRUE} ELSE BOOLEAN) :
       IF fails
       THEN Raise(i) /\ UNCHANGED <<tx, todo, inserted>>
       ELSE /\ tx' = [tx EXCEPT ![i].rows = Append(@, Head(todo[i]))]
            /\ todo' = [todo EXCEPT ![i] = Tail(@)]
            /\ inserted' = [inserted EXCEPT ![i] = @ + 1]
            /\ pc' = [pc EXCEPT ![i] = IF Tail(todo[i]) = <<>> THEN "commit" ELSE "insert"]
            /\ raising' = raising
  /\ trace' = [trace EXCEPT ![i].sql = @ + 1]
  /\ UNCHANGED <<envvars, costvars, scriptvars, webvars, resolved, seed_loaded, dbvars, conn, count, before, runs,
                 history>>

\* conn.commit()
Commit(i) ==
  /\ pc[i] = "commit"
  /\ \E fails \in BOOLEAN :
       IF fails
       THEN Raise(i) /\ UNCHANGED <<tx, table_exists, rows>>
       ELSE /\ table_exists' = (table_exists \/ tx[i].created)
            /\ rows' = commit_rows(rows, tx[i].rows)
            /\ tx' = [tx EXCEPT ![i] = NoTx]
            /\ pc' = [pc EXCEPT ![i] = "close"]
            /\ raising' = raising
  /\ trace' = [trace EXCEPT ![i].commits = @ + 1]
  /\ UNCHANGED <<envvars, costvars, scriptvars, webvars, resolved, seed_loaded, db_env, pyodbc_available, conn, count,
                 todo, inserted, before, runs, history>>

\* finally: conn.close(); uncommitted work is rolled back
Close(i) ==
  /\ pc[i] = "close"
  /\ conn' = [conn EXCEPT ![i] = "closed"]
  /\ tx' = [tx EXCEPT ![i] = NoTx]
  /\ Finish(i, IF raising[i] THEN "raised" ELSE "returned")
  /\ UNCHANGED <<envvars, costvars, scriptvars, webvars, resolved, seed_loaded, dbvars, count, todo, inserted, before,
                 runs, trace>>

NextBoot ==
  \E i \in Instances :
    \/ StartInSequence(i)
    \/ Connect(i)
    \/ EnsureTable(i)
    \/ Count(i)
    \/ Load(i)
    \/ Insert(i)
    \/ Commit(i)
    \/ Close(i)

SpecBoot == InitBoot /\ [][NextBoot]_vars

\* ------------------------------------------------------------------------
\* The bootstrap of an empty table, explored over the shapes of an entry
\* ------------------------------------------------------------------------
PersistItems == {Q2, Q4, Q5, E1}

InitPersist ==
  /\ DEMO_MODE = Unset
  /\ ENVIRONMENT \in {Unset, "development"}
  /\ KEY_VAULT_URL = Unset
  /\ QUOTES_DATA_BASE64 \in
        {Payload("unset", JNull)}
          \cup Encoded({JArray(s) : s \in SeqsUpTo(PersistItems, MaxBootLen)})
  /\ secret = Payload("throws", JNull)
  /\ seed_files = [i \in SeedPaths |-> IF i = 1 THEN FileOk(JArray(<<M1, Q1, Q2, Q3>>))
                                        ELSE FileAbsent]
  /\ resolved = NotCalled
  /\ seed_loaded = NotCalled
  /\ db_env = DbEnv(Unset, "cs", Unset, Unset, Unset, Unset, Unset)
  /\ pyodbc_available = TRUE
  /\ table_exists \in BOOLEAN
  /\ rows = <<>>
  /\ NoRun
  /\ NoRequest
  /\ NoCost
  /\ NoScript

SpecPersist == InitPersist /\ [][NextBoot]_vars

\* ------------------------------------------------------------------------
\* Two instances bootstrapping at the same time against one empty table
\* ------------------------------------------------------------------------
InitRace ==
  /\ DEMO_MODE = Unset
  /\ ENVIRONMENT = Unset
  /\ KEY_VAULT_URL = Unset
  /\ QUOTES_DATA_BASE64 \in
        {Payload("unset", JNull)}
          \cup Encoded({JArray(s) : s \in SeqsUpTo(BootItems, MaxBootLen)})
  /\ secret = Payload("throws", JNull)
  /\ seed_files = [i \in SeedPaths |-> IF i = 1 THEN FileOk(JArray(<<M1, Q1>>))
                                        ELSE FileAbsent]
  /\ resolved = NotCalled
  /\ seed_loaded = NotCalled
  /\ db_env = DbEnv(Unset, "cs", Unset, Unset, Unset, Unset, Unset)
  /\ pyodbc_available = TRUE
  /\ table_exists = TRUE
  /\ rows = <<>>
  /\ NoRun
  /\ NoRequest
  /\ NoCost
  /\ NoScript

NextRace ==
  \E i \in Instances :
    \/ Start(i)
    \/ Connect(i)
    \/ EnsureTable(i)
    \/ Count(i)
    \/ Load(i)
    \/ Insert(i)
    \/ Commit(i)
    \/ Close(i)

SpecRace == InitRace /\ [][NextRace]_vars

\* ------------------------------------------------------------------------
\* The HTTP routes, one action per handler
\* ------------------------------------------------------------------------
\* the tiers and secret-store endpoints the routes are explored with
WebTiers == {<<Unset, Unset>>, <<"prod", Unset>>, <<"prod", "https://kv">>}

InitWeb ==
  /\ DEMO_MODE = Unset
  /\ \E e \in WebTiers : ENVIRONMENT = e[1] /\ KEY_VAULT_URL = e[2]
  /\ QUOTES_DATA_BASE64 \in {Payload("unset", JNull), Payload("json", JObject)}
  /\ secret = Payload("json", JArray(<<Q2>>))
  /\ seed_files = [i \in SeedPaths |-> IF i = 1 THEN FileOk(JArray(<<M1, Q1>>))
                                        ELSE FileAbsent]
  /\ resolved = NotCalled
  /\ seed_loaded = NotCalled
  /\ db_env \in DbEnvs
  /\ pyodbc_available \in BOOLEAN
  /\ table_exists \in BOOLEAN
  /\ rows \in {<<>>} \cup (IF table_exists
                            THEN {<<row_of(Q1)>>, <<row_of(Q1), row_of(Q2)>>} ELSE {})
  /\ NoRun
  /\ NoRequest
  /\ NoCost
  /\ NoScript

\* what one request meets: the outcome of get_db_connection, of the queries,
\* the text of the exception and the row the random order puts first
Inputs(route) ==
  IF db_not_configured(pyodbc_available, db_env)
  THEN {[route |-> route, connect |-> "raises", query |-> "", msg |-> NotConfiguredMessage,
         pick |-> 0]}
  ELSE {[route |-> route, connect |-> "raises", query |-> "", msg |-> m, pick |-> 0] :
          m \in Messages}
       \cup {[route |-> route, connect |-> "ok", query |-> "raises", msg |-> m, pick |-> 0] :
               m \in Messages}
       \cup (IF ~table_exists THEN {}
             ELSE {[route |-> route, connect |-> "ok", query |-> "ok", msg |-> "", pick |-> n] :
                     n \in (IF rows = <<>> THEN {0} ELSE 1..Len(rows))})

Serve(in) ==
  /\ requests < MaxRequests
  /\ requests' = requests + 1
  /\ request' = in
  /\ response' = handle(in, rows)
  /\ open_conns' = open_conns + (IF response'.conn = "open" THEN 1 ELSE 0)
  /\ UNCHANGED <<envvars, costvars, scriptvars, resolved, seed_loaded, dbvars, runvars>>

RandomQuote == \E in \in Inputs("/") : Serve(in)
QuoteWithSource == \E in \in Inputs("/quote-with-source") : Serve(in)
DbTest == \E in \in Inputs("/db-test") : Serve(in)
DbValidate == \E in \in Inputs("/db-validate") : Serve(in)

\* GET /debug-seed: registered by create_app whatever the tier is
DebugSeed ==
  /\ requests < MaxRequests
  /\ requests' = requests + 1
  /\ request' = [NoInputs EXCEPT !.route = "/debug-seed"]
  /\ resolved' = _load_quotes_securely(DEMO_MODE, ENVIRONMENT, KEY_VAULT_URL,
                                       QUOTES_DATA_BASE64, secret, seed_files)
  /\ response' = debug_seed(seed_files, resolved'.result)
  /\ UNCHANGED <<envvars, costvars, scriptvars, seed_loaded, dbvars, runvars, open_conns>>

NextWeb == RandomQuote \/ QuoteWithSource \/ DbTest \/ DbValidate \/ DebugSeed

SpecWeb == InitWeb /\ [][NextWeb]_vars

\* ------------------------------------------------------------------------
\* The cleanup script: main, cleanup_resource_group, delete_resource_group
\* ------------------------------------------------------------------------
Overshoot == {10 * k : k \in 0..MaxOvershoot}

InitCleanup ==
  /\ DEMO_MODE = Unset
  /\ ENVIRONMENT = Unset
  /\ KEY_VAULT_URL = Unset
  /\ QUOTES_DATA_BASE64 = Payload("unset", JNull)
  /\ secret = Payload("throws", JNull)
  /\ seed_files = [i \in SeedPaths |-> FileAbsent]
  /\ resolved = NotCalled
  /\ seed_loaded = NotCalled
  /\ NoDatabase
  /\ NoRun
  /\ NoRequest
  /\ NoCost
  /\ webhook_url \in {Unset, "", "https://hook"}
  /\ cleanup = NoCleanup
  /\ clock = 0
  /\ operation = "none"
  /\ notifications = <<>>

\* delete_resource_group returns d; cleanup_resource_group picks the message
Returned(d, why) ==
  cleanup' = [cleanup EXCEPT !.deleted = d, !.why = why, !.status = cleanup_status(d),
                             !.success = d, !.pc = "notify"]

\* main: AzureCleanupManager(args.subscription, args.webhook_url)
Construct ==
  /\ cleanup.pc = "main"
  /\ \E raises \in BOOLEAN :
       cleanup' = IF raises THEN [cleanup EXCEPT !.pc = "exit"]
                  ELSE [cleanup EXCEPT !.pc = "get", !.constructed = TRUE]
  /\ UNCHANGED <<envvars, costvars, webvars, resolved, seed_loaded, dbvars, runvars, webhook_url, clock,
                 operation, notifications>>

\* cleanup_resource_group: resource_groups.get and its two except branches
GetResourceGroup ==
  /\ cleanup.pc = "get"
  /\ \E g \in {"found", "not_found", "error"} :
       cleanup' = CASE g = "found" -> [cleanup EXCEPT !.group = g, !.pc = "begin_delete"]
                    [] g = "not_found" -> [cleanup EXCEPT !.group = g, !.status = "INFO",
                                                          !.success = "True", !.pc = "notify"]
                    [] OTHER -> [cleanup EXCEPT !.group = g, !.status = "ERROR",
                                                !.success = "False", !.pc = "notify"]
  /\ UNCHANGED <<envvars, costvars, webvars, resolved, seed_loaded, dbvars, runvars, webhook_url, clock,
                 operation, notifications>>

\* get_resource_group_costs and list_resources_in_group catch what they
\* raise; then delete_resource_group: begin_delete and start_time
BeginDelete ==
  /\ cleanup.pc = "begin_delete"
  /\ \E raises \in BOOLEAN :
       IF raises
       THEN Returned("False", "begin_delete") /\ operation' = operation
       ELSE /\ cleanup' = [cleanup EXCEPT !.start_time = clock, !.pc = "poll"]
            /\ operation' = "running"
  /\ UNCHANGED <<envvars, costvars, webvars, resolved, seed_loaded, dbvars, runvars, webhook_url, clock,
                 notifications>>

\* one turn of "while not delete_operation.done()": the test, the timeout
\* check and the sleep, during which the operation may finish
PollDelete ==
  /\ cleanup.pc = "poll"
  /\ \E raises \in BOOLEAN :
       IF raises
       THEN Returned("False", "done") /\ UNCHANGED <<clock, operation>>
       ELSE IF operation # "running"
       THEN /\ cleanup' = [cleanup EXCEPT !.done_at = clock - cleanup.start_time,
                                          !.pc = "result"]
            /\ UNCHANGED <<clock, operation>>
       ELSE IF timed_out(clock - cleanup.start_time)
       THEN Returned("False", "timeout") /\ UNCHANGED <<clock, operation>>
       ELSE /\ cleanup' = [cleanup EXCEPT !.last_wait = clock - cleanup.start_time]
            /\ \E d \in Overshoot : clock' = clock + sleep_seconds + d
            /\ operation' \in {"running", "succeeded", "failed"}
  /\ UNCHANGED <<envvars, costvars, webvars, resolved, seed_loaded, dbvars, runvars, webhook_url,
                 notifications>>

\* delete_operation.result() raises when the operation failed
DeleteResult ==
  /\ cleanup.pc = "result"
  /\ IF operation = "failed" THEN Returned("False", "result") ELSE Returned("True", "")
  /\ UNCHANGED <<envvars, costvars, webvars, resolved, seed_loaded, dbvars, runvars, webhook_url, clock,
                 operation, notifications>>

\* cleanup_resource_group: the notification and the return
Notify ==
  /\ cleanup.pc = "notify"
  /\ \E delivered \in BOOLEAN :
       notifications' = send_webhook_notification(webhook_url, notifications,
                                                  cleanup.status, delivered)
  /\ cleanup' = [cleanup EXCEPT !.pc = "exit"]
  /\ UNCHANGED <<envvars, costvars, webvars, resolved, seed_loaded, dbvars, runvars, webhook_url, clock,
                 operation>>

\* main: sys.exit
Exit ==
  /\ cleanup.pc = "exit"
  /\ cleanup' = [cleanup EXCEPT !.exit_code = exit_code_of(cleanup.constructed,
                                                            cleanup.success),
                                !.pc = "exited"]
  /\ UNCHANGED <<envvars, costvars, webvars, resolved, seed_loaded, dbvars, runvars, webhook_url, clock,
                 operation, notifications>>

NextCleanup ==
  \/ Construct
  \/ GetResourceGroup
  \/ BeginDelete
  \/ PollDelete
  \/ DeleteResult
  \/ Notify
  \/ Exit

SpecCleanup == InitCleanup /\ [][NextCleanup]_vars

\* the script is scheduled until it exits: each step that can be taken is taken
SpecCleanupFair == SpecCleanup /\ WF_vars(NextCleanup)

\* ------------------------------------------------------------------------
\* The cost monitor: cost retrieval and the budget check
\* ------------------------------------------------------------------------
GroupValues ==
  {Group(n, cm, cons, res) :
     n \in {"webapp-demo-dev-rg", "webapp-demo-prod-rg"}, cm \in {0, 700}, cons \in {0, 250},
     res \in {<<>>, <<"Microsoft.Web/sites">>, <<"Microsoft.Web/serverFarms", "Other/type">>}}

\* everything but the scripts is left as it starts
NoApp ==
  /\ DEMO_MODE = Unset
  /\ ENVIRONMENT = Unset
  /\ KEY_VAULT_URL = Unset
  /\ QUOTES_DATA_BASE64 = Payload("unset", JNull)
  /\ secret = Payload("throws", JNull)
  /\ seed_files = [i \in SeedPaths |-> FileAbsent]
  /\ resolved = NotCalled
  /\ seed_loaded = NotCalled
  /\ NoDatabase
  /\ NoRun
  /\ NoRequest

InitCost ==
  /\ NoApp
  /\ NoScript
  /\ \E g \in SeqsUpTo(GroupValues, MaxGroups), e \in {Unset, "dev", "prod"},
        r \in 0..MaxGroups :
       cost_in = [groups |-> g, environment |-> e, raises_at |-> r]
  /\ cost_data = NoCostData
  /\ budget = NoBudget

\* get_cost_data and format_cost_report
GetCostData ==
  /\ ~cost_data.called
  /\ cost_data' = _get_cost_data_via_cli(cost_in.groups, cost_in.environment,
                                         cost_in.raises_at)
  /\ UNCHANGED <<envvars, webvars, scriptvars, resolved, seed_loaded, dbvars, runvars,
                 cost_in, budget>>

NextCost == GetCostData

SpecCost == InitCost /\ [][NextCost]_vars

InitBudget ==
  /\ NoApp
  /\ NoScript
  /\ NoCost

\* monitor.check_budget_alerts(args.budget_alert, total_cost), in dollars
CheckBudget ==
  /\ ~budget.called
  /\ \E budget_limit \in -1..MaxBudget, current_cost \in -1..MaxCost :
       budget' = check_budget_alerts(budget_limit, current_cost)
  /\ UNCHANGED <<envvars, webvars, scriptvars, resolved, seed_loaded, dbvars, runvars,
                 cost_in, cost_data>>

NextBudget == CheckBudget

SpecBudget == InitBudget /\ [][NextBudget]_vars

\* ------------------------------------------------------------------------
\* Properties of the resolver
\* ------------------------------------------------------------------------
tier == lower(environ_get(ENVIRONMENT, "dev"))
demo_set == lower(environ_get(DEMO_MODE, "")) = "true"
vault_set == truthy(KEY_VAULT_URL)
inline_parses == QUOTES_DATA_BASE64.tag = "json"
inline_malformed == QUOTES_DATA_BASE64.tag \in {"b64err", "utf8err", "jsonerr"}
seed_result == _load_from_seed_files(seed_files)
has_text(q) == q.text # Absent /\ q.text # ""
is_marker(q) == q.comment # Absent /\ q.comment # ""

hard_constraint == tier = "prod" /\ ~vault_set
nonempty_list(v) == v.kind = "array" /\ v.items # <<>>

\* C1: with tier prod and no secret-store endpoint the resolver returns None,
\* without reading a seed file or contacting the secret store, whatever the
\* demo flag, the inline payload and the seed files are.
C1_ProdWithoutVaultUnavailable ==
  (resolved.called /\ hard_constraint)
    => (resolved.result = None /\ resolved.source = "Unavailable"
        /\ ~resolved.seed /\ ~resolved.kv)

C1_Witness ==
  /\ resolved.called /\ hard_constraint /\ demo_set
  /\ inline_parses /\ nonempty_list(QUOTES_DATA_BASE64.val)
  /\ nonempty_list(seed_result)

C3_ProdNeverSeeds ==
  (resolved.called /\ tier = "prod" /\ ~demo_set)
    => /\ ~resolved.seed
       /\ resolved.source # "SeedFile"
       /\ (resolved.kv /\ secret.tag = "throws")
            => (resolved.result = None /\ seed_plan(resolved.result).rows = <<>>
                /\ ~seed_plan(resolved.result).raises)

C3_Witness ==
  /\ resolved.called /\ tier = "prod" /\ ~demo_set /\ vault_set
  /\ resolved.kv /\ secret.tag = "throws"
  /\ nonempty_list(seed_result)

\* C4 (as claimed): for every tier other than prod, with the demo flag unset
\* and no data from the inline payload or the secret store, the resolver
\* returns the seed-file load result.
C4_NonProdFallsBackToSeed ==
  (resolved.called /\ tier # "prod" /\ ~demo_set
     /\ resolved.source \notin {"InlineEnv", "SecretStore"})
    => (resolved.seed /\ resolved.result = seed_result)

\* C5 (as claimed): with the demo flag unset and the hard constraint not
\* firing, an inline payload that decodes and parses is returned, and neither
\* the secret store nor a seed file is touched.
C5_InlineParsedShortCircuits ==
  (resolved.called /\ ~demo_set /\ ~hard_constraint /\ inline_parses)
    => (resolved.source = "InlineEnv" /\ resolved.result = QUOTES_DATA_BASE64.val
        /\ ~resolved.kv /\ ~resolved.seed)

\* C5 (amended): with the demo flag unset and the hard constraint not firing,
\* an inline payload that decodes and parses to a JSON array or object (a value
\* len() accepts) is returned, and neither the secret store nor a seed file is
\* touched; a payload parsing to null is a failed step.
C5_InlineSizedShortCircuits ==
  (resolved.called /\ ~demo_set /\ ~hard_constraint /\ inline_parses)
    => IF QUOTES_DATA_BASE64.val.kind \in {"array", "object"}
       THEN resolved.source = "InlineEnv" /\ resolved.result = QUOTES_DATA_BASE64.val
            /\ ~resolved.kv /\ ~resolved.seed
       ELSE resolved.source # "InlineEnv"

C5_Witness ==
  /\ resolved.called /\ ~demo_set /\ inline_parses
  /\ nonempty_list(QUOTES_DATA_BASE64.val)
  /\ vault_set /\ secret.tag = "json" /\ nonempty_list(secret.val)
  /\ secret.val # QUOTES_DATA_BASE64.val
  /\ resolved.source = "InlineEnv"

\* C6: a payload that fails to base64-decode, utf-8-decode or JSON-parse gives
\* the same outcome as an absent payload, all other inputs being equal.
C6_MalformedInlineLikeAbsent ==
  (resolved.called /\ inline_malformed)
    => resolved = _load_quotes_securely(DEMO_MODE, ENVIRONMENT, KEY_VAULT_URL,
                                        Payload("unset", JNull), secret, seed_files)

C6_Witness ==
  /\ resolved.called /\ inline_malformed /\ ~demo_set
  /\ resolved.source = "SecretStore" /\ nonempty_list(resolved.result)

\* C7 (as claimed): for a well-formed inline array the resolver returns
\* exactly the entries with non-empty text, in payload order.
C7_ResolverDropsTextless ==
  (resolved.called /\ ~demo_set /\ ~hard_constraint /\ inline_parses
     /\ QUOTES_DATA_BASE64.val.kind = "array")
    => resolved.result = JArray(SelectSeq(QUOTES_DATA_BASE64.val.items, has_text))

\* C7 (amended): for a well-formed inline array the resolver returns all the
\* entries of the payload, in payload order, those with empty or missing text
\* included; _seed_if_empty drops them, so the rows it builds are exactly the
\* entries with non-empty text, in payload order.
C7_ResolverKeepsAllSeedDrops ==
  (resolved.called /\ ~demo_set /\ ~hard_constraint /\ inline_parses
     /\ QUOTES_DATA_BASE64.val.kind = "array")
    => LET kept == SelectSeq(QUOTES_DATA_BASE64.val.items, has_text)
           plan == seed_plan(resolved.result)
       IN /\ resolved.result = QUOTES_DATA_BASE64.val
          /\ ~plan.raises
          /\ Len(plan.rows) = Len(kept)
          /\ \A k \in 1..Len(kept) : plan.rows[k].text = kept[k].text

C7_Witness ==
  /\ resolved.called /\ ~demo_set /\ ~hard_constraint /\ inline_parses
  /\ QUOTES_DATA_BASE64.val = JArray(<<E1, Q2>>)
  /\ resolved.result = JArray(<<E1, Q2>>)

\* C8 (as claimed): the resolver never returns an empty list; a source with
\* no entries counts as a failed step.
C8_NeverEmptyList ==
  resolved.called => ~(resolved.result.kind = "array" /\ resolved.result.items = <<>>)

\* C9: loading a seed file holding quote objects and marker objects (truthy
\* _comment), in any interleaving, returns exactly the quote objects, in file
\* order.
C9_SeedFileKeepsQuotes ==
  \A k \in SeedPaths :
    (/\ seed_loaded.called
     /\ seed_files[k].state = "ok" /\ seed_files[k].val.kind = "array"
     /\ \A j \in 1..(k - 1) : seed_files[j].state # "ok")
      => LET data == seed_files[k].val.items
             quotes == {n \in 1..Len(data) : ~is_marker(data[n])}
             got == seed_loaded.result.items
         IN /\ seed_loaded.result.kind = "array"
            /\ Len(got) = Cardinality(quotes)
            /\ \A n \in 1..Len(got) :
                 \E m \in quotes :
                   got[n] = data[m] /\ Cardinality({x \in quotes : x < m}) = n - 1

C9_Witness ==
  /\ seed_loaded.called
  /\ seed_files[1] = FileOk(JArray(<<Q3, M2, Q1>>))
  /\ seed_loaded.result = JArray(<<Q3, Q1>>)

\* C10: when a bootstrap run finds the table empty and leaves it seeded, the
\* run that follows inserts no row and leaves the same row count.
C10_SecondRunInsertsNothing ==
  \A k \in 1..(Len(history) - 1) :
    (history[k].before = 0 /\ history[k].after > 0)
      => (history[k + 1].inserted = 0 /\ history[k + 1].after = history[k].after)

C10_Witness ==
  /\ Len(history) = 2
  /\ history[1].before = 0 /\ history[1].after > 0 /\ history[1].inserted > 0
  /\ history[2].outcome = "returned" /\ history[2].conn = "closed"

\* ------------------------------------------------------------------------
\* Properties of the bootstrap
\* ------------------------------------------------------------------------
finished == 1..Len(history)

not_configured ==
  \/ ~pyodbc_available
  \/ /\ db_env.DATABASE_CONNECTION_STRING \in {Unset, ""}
     /\ db_env.SQL_CONN_STR \in {Unset, ""}
     /\ \E v \in {db_env.SQL_SERVER, db_env.SQL_DATABASE, db_env.SQL_USER,
                    db_env.SQL_PASSWORD} : v \in {Unset, ""}

no_data == resolved.result = None \/ resolved.result = JArray(<<>>)

\* C11: a run that starts on a table holding at least one row issues the
\* table-ensure and the count and nothing else: it never calls the resolver,
\* issues no INSERT and leaves the rows as they were.
C11_SeededTableUntouched ==
  /\ \A i \in Instances :
       before[i] > 0 => (pc[i] \notin {"load", "insert"} /\ ~trace[i].resolver
                         /\ inserted[i] = 0 /\ tx[i].rows = <<>>)
  /\ \A k \in finished :
       history[k].before > 0
         => (~history[k].resolver /\ history[k].inserted = 0 /\ history[k].sql <= 2
             /\ history[k].after = history[k].before)

C11_Witness ==
  \E k \in finished :
    /\ history[k].before > 0 /\ history[k].count > 0
    /\ history[k].outcome = "returned" /\ history[k].sql = 2
    /\ rows = <<row_of(Q1)>>

\* C12: when the connection factory reports DBNotConfigured (driver missing,
\* no connection string, incomplete discrete variables) the run returns
\* normally, having issued no SQL, no resolver call and no commit.
C12_NotConfiguredSkips ==
  not_configured
    => \A k \in finished :
         /\ history[k].outcome = "returned"
         /\ history[k].sql = 0 /\ history[k].commits = 0 /\ ~history[k].resolver
         /\ history[k].conn = "none"
         /\ history[k].after = history[k].before

C12_Witness ==
  /\ not_configured /\ pyodbc_available /\ db_env.SQL_SERVER = "srv"
  /\ Len(history) = 2 /\ history[2].outcome = "returned"

\* C13: when the table is empty and the resolver gives None or an empty list,
\* _seed_if_empty inserts no row and returns without raising (an exception of
\* the run can then only come from the commit).
C13_NoDataNoInsert ==
  /\ \A i \in Instances :
       (trace[i].resolver /\ no_data)
         => (inserted[i] = 0 /\ todo[i] = <<>> /\ tx[i].rows = <<>>
             /\ pc[i] # "insert" /\ (raising[i] => trace[i].commits > 0))
  /\ \A k \in finished :
       (history[k].resolver /\ no_data)
         => (history[k].inserted = 0 /\ history[k].after = history[k].before
             /\ (history[k].outcome = "raised" => history[k].commits > 0))

C13_Witness ==
  \E k \in finished :
    /\ history[k].resolver /\ history[k].outcome = "returned"
    /\ resolved.result = JArray(<<>>) /\ history[k].commits = 1

\* C14: a connection that a run acquired is closed when the run is over,
\* whether the call returned or raised.
C14_ConnectionClosed ==
  /\ \A i \in Instances : pc[i] = "idle" => conn[i] # "open"
  /\ \A k \in finished :
       /\ history[k].conn # "open"
       /\ history[k].sql > 0 => history[k].conn = "closed"

C14_Witness ==
  \E k \in finished :
    /\ history[k].outcome = "raised" /\ history[k].conn = "closed"
    /\ history[k].inserted > 0 /\ history[k].commits = 0

\* C15: a run commits at most once, after its last insert; a run that raised
\* persisted nothing, so the table holds either none or all of the rows of
\* a run.
C15_AllOrNothing ==
  \A k \in finished :
    /\ history[k].commits <= 1
    /\ history[k].commits = 1 => history[k].pending = 0
    /\ history[k].outcome = "raised" => history[k].after = history[k].before
    /\ history[k].outcome = "returned"
         => history[k].after = history[k].before + history[k].inserted

C15_Witness ==
  \E k \in finished :
    /\ history[k].outcome = "raised" /\ history[k].inserted = 1
    /\ history[k].pending = 1 /\ history[k].commits = 0
    /\ history[k].after = history[k].before

\* C16: initialize_database never lets an exception through: it returns
\* False when ensure_schema_and_seed raised and True when it returned, the
\* not-configured skip included.
C16_InitializeBestEffort ==
  \A k \in finished :
    /\ history[k].init \in {"True", "False"}
    /\ history[k].init = "True" <=> history[k].outcome = "returned"
    /\ not_configured => history[k].init = "True"

C16_Witness ==
  /\ Len(history) = 2
  /\ history[1].outcome = "raised" /\ history[1].init = "False"
  /\ history[1].commits = 1
  /\ history[2].init = "True" /\ history[2].sql > 0

seeded_from_zero(k) ==
  /\ history[k].count = 0 /\ history[k].resolver
  /\ history[k].outcome = "returned" /\ history[k].inserted > 0

\* C17: when two instances both read a count of zero and both go on to
\* insert and commit, the table holds the rows of both: every seed row is
\* stored at least twice; no lock or unique constraint prevents it.
C17_BothSeedDuplicates ==
  \A j, k \in finished :
    (j < k /\ history[j].instance # history[k].instance
       /\ seeded_from_zero(j) /\ seeded_from_zero(k))
      => /\ Len(rows) >= history[j].inserted + history[k].inserted
         /\ \A n \in 1..Len(rows) :
              Cardinality({x \in 1..Len(rows) : rows[x] = rows[n]}) >= 2

C17_Witness ==
  /\ Len(history) = 2
  /\ history[1].instance # history[2].instance
  /\ seeded_from_zero(1) /\ seeded_from_zero(2)
  /\ history[1].before = 0 /\ history[2].before = 0
  /\ history[1].inserted = 2 /\ history[2].inserted = 2
  /\ Len(rows) = 4

\* ------------------------------------------------------------------------
\* Properties of the HTTP routes
\* ------------------------------------------------------------------------
is_stored_row(b) ==
  /\ b.id \in 1..Len(rows)
  /\ b = [NoBody EXCEPT !.id = b.id, !.author = rows[b.id].author, !.text = rows[b.id].text]

C19_ErrorBodyHidesException ==
  (response.status >= 400 /\ request.msg \in Messages)
    => \A m \in Messages : handle([request EXCEPT !.msg = m], rows).body = response.body

\* C20 (as claimed): no request leaves its connection open, whatever way the
\* handler is left.
C20_NoConnectionLeftOpen ==
  /\ open_conns = 0
  /\ response.conn # "open"

\* C21 (as claimed): the diagnostic endpoint /debug-seed, which calls the
\* resolver and returns a sample quote, is never served while the tier is
\* prod.
C21_DebugSeedNotInProd ==
  response.route = "/debug-seed" => tier # "prod"

\* C27 (as claimed): with tier prod and the demo flag unset, every
\* resolution that returns data took it from the secret store, whatever
\* QUOTES_DATA_BASE64 holds.
C27_ProdDataFromSecretStore ==
  (resolved.called /\ tier = "prod" /\ DEMO_MODE = Unset /\ resolved.result # None)
    => (resolved.source = "SecretStore" /\ resolved.kv)

\* ------------------------------------------------------------------------
\* Properties of the persisted rows
\* ------------------------------------------------------------------------
nonempty_text(x) == x # Absent /\ x # Null /\ x # ""
entry_has_text(q) == nonempty_text(q.text)

\* C22 (as claimed): every row the seed path stored has a non-empty author
\* and a non-empty text, also when an entry carries an author that is empty
\* or null.
C22_RowsHaveAuthorAndText ==
  \A n \in 1..Len(rows) : nonempty_text(rows[n].author) /\ nonempty_text(rows[n].text)

\* one row per entry with text, in entry order, the author kept or Unknown
\* when the key is absent
expected_rows(items) ==
  LET kept == SelectSeq(items, entry_has_text)
  IN [k \in 1..Len(kept) |->
        [author |-> IF kept[k].author = Absent THEN "Unknown" ELSE kept[k].author,
         text |-> kept[k].text]]

\* C26: a run that found the table empty, got a list from the resolver and
\* returned has stored exactly one row per entry with non-empty text, in
\* entry order, with the entry's author or Unknown when the key is absent;
\* entries without text and marker objects of the seed file give no row.
C26_OneRowPerEntryWithText ==
  \A k \in finished :
    (history[k].resolver /\ history[k].outcome = "returned"
       /\ resolved.result.kind = "array")
      => /\ rows = expected_rows(resolved.result.items)
         /\ (history[k].before = 0 /\ history[k].count = 0)
              => history[k].inserted = Len(rows)

C26_Witness ==
  /\ Len(history) = 1 /\ history[1].outcome = "returned" /\ history[1].inserted = 3
  /\ resolved.source = "SeedFile"
  /\ seed_files[1].val.items = <<M1, Q1, Q2, Q3>>
  /\ rows = << [author |-> "A1", text |-> "T1"], [author |-> "Unknown", text |-> "T2"],
               [author |-> "A3", text |-> "T3"] >>

\* ------------------------------------------------------------------------
\* Properties of the seed-file loader
\* ------------------------------------------------------------------------
not_marker(q) == ~is_marker(q)
file_content(f) == JArray(SelectSeq(f.val.items, not_marker))
first_of(paths) == CHOOSE i \in paths : \A j \in paths : i <= j

\* the candidates that exist and hold well-formed JSON
parsing_paths == {i \in SeedPaths : seed_files[i].state = "ok"}

\* the candidates that exist and hold a JSON array of objects
loadable_paths == {i \in SeedPaths : seed_files[i].state = "ok"
                                      /\ seed_files[i].val.kind = "array"}

exited == cleanup.pc = "exited"
cleanup_returned == cleanup.pc \in {"exit", "exited"} /\ cleanup.success # "none"
delete_returned == cleanup.deleted # "none"

\* C23: main exits with code 0 exactly when cleanup_resource_group returned
\* True, and with code 1 when it returned False (the deletion failed or
\* timed out) or when the construction of the manager raised.
C23_ExitCode ==
  exited
    => /\ cleanup.exit_code \in {0, 1}
       /\ cleanup.exit_code = 0 <=> (cleanup.constructed /\ cleanup.success = "True")
       /\ cleanup.success = "False" => cleanup.exit_code = 1
       /\ ~cleanup.constructed => (cleanup.exit_code = 1 /\ cleanup.success = "none")

C23_Witness ==
  /\ exited /\ cleanup.constructed
  /\ cleanup.success = "False" /\ cleanup.why = "timeout"
  /\ cleanup.exit_code = 1

\* C28: with a webhook URL configured, a run of cleanup_resource_group
\* attempts exactly one notification, whose status agrees with the result:
\* INFO (group not found) or SUCCESS (deleted) with True, WARNING (the
\* deletion returned False) or ERROR (exception) with False; the result does
\* not depend on whether the POST was delivered. Without a URL nothing is
\* posted.
C28_OneNotificationPerRun ==
  /\ Len(notifications) <= 1
  /\ ~truthy(webhook_url) => notifications = <<>>
  /\ (cleanup_returned /\ truthy(webhook_url))
       => /\ Len(notifications) = 1
          /\ cleanup.success = "True"
               => /\ notifications[1].status \in {"INFO", "SUCCESS"}
                  /\ notifications[1].status = "INFO" <=> cleanup.group = "not_found"
                  /\ notifications[1].status = "SUCCESS" <=> cleanup.deleted = "True"
          /\ cleanup.success = "False"
               => /\ notifications[1].status \in {"WARNING", "ERROR"}
                  /\ notifications[1].status = "WARNING" <=> cleanup.deleted = "False"
                  /\ notifications[1].status = "ERROR" <=> cleanup.group = "error"
          /\ cleanup.success = "True"
               <=> (cleanup.group = "not_found"
                    \/ (cleanup.group = "found" /\ cleanup.deleted = "True"))

C28_Witness ==
  /\ cleanup_returned /\ truthy(webhook_url)
  /\ cleanup.success = "True" /\ cleanup.deleted = "True"
  /\ notifications = << [status |-> "SUCCESS", delivered |-> FALSE] >>

\* what delete_resource_group returns, as claimed: True only with the
\* operation reported done within the timeout and a result without error
true_only_before_timeout ==
  cleanup.deleted = "True"
    => (operation = "succeeded" /\ cleanup.done_at >= 0
        /\ cleanup.done_at <= timeout_seconds)

\* False on every exception and when the operation is found not done after
\* the timeout
false_on_timeout_or_exception ==
  /\ cleanup.deleted = "False"
       => /\ cleanup.why \in {"begin_delete", "done", "timeout", "result"}
          /\ cleanup.why = "timeout"
               => (operation = "running" /\ clock - cleanup.start_time > timeout_seconds)
          /\ cleanup.why = "result" => operation = "failed"
  /\ cleanup.last_wait <= timeout_seconds

delete_always_returns == (cleanup.pc = "begin_delete") ~> delete_returned

\* C29 (as claimed): delete_resource_group always eventually returns; it
\* returns True only if the operation reported done before the 10-minute
\* timeout and its result raised no error, and False if the operation is
\* still not done once the timeout has elapsed or if an exception occurs.
C29_TrueOnlyBeforeTimeout ==
  delete_always_returns /\ [](true_only_before_timeout /\ false_on_timeout_or_exception)

\* True only with the operation reported done at a test of the loop, every
\* earlier test having been made within the timeout: the operation may be
\* reported done up to one sleep after the timeout
true_only_when_done ==
  cleanup.deleted = "True"
    => (operation = "succeeded" /\ cleanup.done_at >= 0
        /\ cleanup.last_wait <= timeout_seconds
        /\ cleanup.done_at <= timeout_seconds + sleep_seconds + 10 * MaxOvershoot)

\* C29 (amended): delete_resource_group always eventually returns; it
\* returns True only if a test of the loop found the operation done and its
\* result raised no error, which can happen up to one poll interval after
\* the 10-minute timeout; it returns False if a test finds the operation not
\* done after the timeout has elapsed or if an exception occurs.
C29_DeleteReturns ==
  delete_always_returns /\ [](true_only_when_done /\ false_on_timeout_or_exception)

C29_Witness ==
  /\ cleanup.deleted = "True" /\ operation = "succeeded"
  /\ cleanup.last_wait = timeout_seconds
  /\ cleanup.done_at > timeout_seconds

\* ------------------------------------------------------------------------
\* Properties of the cost monitor
\* ------------------------------------------------------------------------
\* C24: with a positive budget the status is critical when the cost is at
\* least 100% of it, warning when it is at least 75% and below 100%, ok
\* below 75%; the alerts list is non-empty exactly when the status is not
\* ok; a budget of 0 or less gives percentage 0 and status ok.
C24_BudgetThresholds ==
  budget.called
    => LET b == budget.budget_limit
           c == budget.current_cost
       IN /\ (b > 0) => ((budget.status = "critical") <=> (c >= b))
          /\ (b > 0) => ((budget.status = "warning") <=> (4 * c >= 3 * b /\ c < b))
          /\ (b > 0) => ((budget.status = "ok") <=> (4 * c < 3 * b))
          /\ (budget.alerts # <<>>) <=> (budget.status # "ok")
          /\ (b <= 0) => (budget.percentage.num = 0 /\ budget.status = "ok")

C24_Witness ==
  /\ budget.called /\ budget.budget_limit = 4 /\ budget.current_cost = 3
  /\ budget.status = "warning" /\ budget.alerts = <<"CAUTION">>

cost_groups == filter_groups(cost_in.groups, cost_in.environment)
tried(method) == \E n \in 1..Len(cost_data.methods) : cost_data.methods[n] = method

\* C30 (as claimed): the Cost Management query comes first, the consumption
\* API is tried only if its total is zero, the estimation only if both are
\* zero; data_source is estimated whenever the total comes from the
\* estimation and actual only when it comes from a billing query, so that
\* the note of the report appears with every estimated total.
C30_EstimatedTotalsLabelled ==
  cost_data.called
    => /\ cost_data.methods[1] = "cost_management"
       /\ tried("consumption") <=> _try_cost_management_api(cost_groups) = 0
       /\ tried("estimate") <=> (_try_cost_management_api(cost_groups) = 0
                                  /\ _try_consumption_api(cost_groups) = 0)
       /\ tried("estimate") => (cost_data.data_source = "estimated" /\ cost_data.note)
       /\ cost_data.data_source = "actual" => ~tried("estimate")

====
